---- MODULE Spec2Model ----
(***************************************************************************)
(* The users dashboard of src/src/app/page.tsx (component Home) as a state *)
(* machine: the React state of the component, the module-level cache, the  *)
(* browser's localStorage entry, the toasts with their timers, and the     *)
(* requests in flight.  One action per handler, per response delivered to  *)
(* an awaiting handler, and per timer callback.                            *)
(*                                                                         *)
(* History variables (not program state): last, consumed, nOps.            *)
(***************************************************************************)
EXTENDS Integers, Sequences, FiniteSets, TLC

\* ---------------------------------------------------------------- bounds
\* Number of operations (requests submitted, push messages) in one behaviour.
MaxOps == 2
\* Longest list of users the model lets an undo or a create build.
MaxUsers == 3
\* Longest list of records given to toCSV; a parsed text has one line more.
MaxRows == 2

\* ------------------------------------------------------- program constants
\* setTimeout(..., 4000) of useToasts.push, in units of 1000 ms.
ToastWindow == 4
\* The clock is observed every half window.
TickStep == ToastWindow \div 2

\* ------------------------------------------------------------------ values
\* A string is the sequence of its characters (messages, which the code only
\* passes on, are left whole).
Al == <<"A", "l">>
Di == <<"D", "i">>
Bo == <<"B", "o">>
Cy == <<"C", "y">>
AlMail == <<"a", "l", "@", "x", ".", "c", "o", "m">>
DiMail == <<"d", "i", "@", "x", ".", "c", "o", "m">>
BoMail == <<"b", "o", "@", "x", ".", "c", "o", "m">>
CyMail == <<"c", "y", "@", "x", ".", "c", "o", "m">>

\* type User = { id, name, email }
User(i, n, e) == [id |-> i, name |-> n, email |-> e]
\* `undefined` where a User is expected (users.find that finds nothing).
NoUser == User(0, <<>>, <<>>)
\* `null` of the error state.
NULL == "null"

\* The rows the service holds when the page is opened.
Seed == << User(1, Al, AlMail), User(2, Di, DiMail) >>
IdSet == {1, 2}
\* Values the edit form submits (validated by UserSchema).
FormValues == { [name |-> Bo, email |-> BoMail],
                [name |-> Cy, email |-> CyMail] }

\* --------------------------------------------------------- list helpers
Ids(v) == { v[i].id : i \in DOMAIN v }
Has(v, id) == \E i \in DOMAIN v : v[i].id = id
\* Array.prototype.find: the first user with this id, or undefined.
Find(v, id) ==
  IF Has(v, id)
  THEN v[CHOOSE i \in DOMAIN v : v[i].id = id /\ \A j \in 1..(i - 1) : v[j].id # id]
  ELSE NoUser
Count(v, id) == Cardinality({ i \in DOMAIN v : v[i].id = id })
RemoveAt(s, i) == SubSeq(s, 1, i - 1) \o SubSeq(s, i + 1, Len(s))
SeqToSet(s) == { s[i] : i \in DOMAIN s }

\* ----------------------------------------------- the handlers' list updates
\* updateUser: v.map(u => u.id === id ? { ...u, ...values } : u)
OptimisticUpdate(v, id, values) ==
  [i \in DOMAIN v |->
     IF v[i].id = id THEN User(v[i].id, values.name, values.email) ELSE v[i]]

\* PUT /api/users/:id answers { id, name, email } of the request.
ServerPut(id, values) == User(id, values.name, values.email)

ServerReplace_keep(v, id, data) == v
\* updateUser: if (data?.id) v.map(u => u.id === id ? data : u)
ServerReplace(v, id, data) ==
  IF data.id # 0
  THEN [i \in DOMAIN v |-> IF v[i].id = id THEN data ELSE v[i]]
  ELSE v

\* removeUser: v.filter(u => u.id !== id)
OptimisticRemove(v, id) == SelectSeq(v, LAMBDA u : u.id # id)

\* removeSelected: v.filter(u => !ids.includes(u.id))
BulkRemove(v, ids) == SelectSeq(v, LAMBDA u : u.id \notin SeqToSet(ids))

\* the Undo action: if (removed) setUsers(v => [removed, ...v])
UndoInsert(v, removed) == IF removed # NoUser THEN <<removed>> \o v ELSE v

Rollback_keep(v, prev) == v
\* the catch blocks of updateUser, removeUser, removeSelected: setUsers(prev)
Rollback(v, prev) == prev

\* ------------------------------------------------------------------ toasts
\* useToasts.push: const id = idRef.current++; setItems(v => [...v, item])
\* age counts the time since the push, for the item's setTimeout.
Toast(id, type, msg, removed, hasAction) ==
  [id |-> id, type |-> type, msg |-> msg, removed |-> removed,
   action |-> hasAction, age |-> 0]
PushToast(items, id, type, msg, removed, hasAction) ==
  Append(items, Toast(id, type, msg, removed, hasAction))

ToastExpire_keepOnly(items, id) == SelectSeq(items, LAMBDA x : x.id = id)
\* the timer callback: setItems(v => v.filter(x => x.id !== id))
ToastExpire(items, id) == SelectSeq(items, LAMBDA x : x.id # id)

\* ------------------------------------------------------- requests in flight
\* A mutation awaiting its response: the closure of the async handler.
\*   kind     "update" | "remove" | "bulk" | "create"; "fetch" in the history
\*            of a fetchUsers call, with prev the list it was called on
\*   id       the id of update / remove (0 otherwise)
\*   ids      the ids of removeSelected (<<>> otherwise)
\*   values   the form values of update / create
\*   prev     the handler's `const prev = users`
\*   waiting  the ids whose DELETE has not been answered yet (bulk)
\*   bad      the ids whose DELETE was answered with a non-2xx status (bulk)
\*   tok      the id of the Undo toast pushed by removeUser      (history)
\*   solo     nothing else has run since the handler was called  (history)
NoValues == [name |-> <<>>, email |-> <<>>]
\*   n        the number of the operation                         (history)
Mutation(kind, id, ids, values, prev, tok, n) ==
  [kind |-> kind, id |-> id, ids |-> ids, values |-> values, prev |-> prev,
   waiting |-> SeqToSet(ids), bad |-> {}, tok |-> tok, solo |-> TRUE, n |-> n]
NoMutation == Mutation("none", 0, <<>>, NoValues, <<>>, 0, 0)

Touch(p) == [i \in DOMAIN p |-> [p[i] EXCEPT !.solo = FALSE]]

\* What the last step did (history).
\*   op     the handler or callback that ran
\*   m      the mutation it belongs to
\*   tok    the id of the toast it is about
\*   again  an Undo of a toast whose Undo had run before
\*   msg    the error message a catch block was entered with
Last(op, m, tok) ==
  [op |-> op, m |-> m, tok |-> tok, again |-> FALSE, msg |-> ""]

VARIABLES
  users,      \* useState<User[]>([])
  loading,    \* useState(true)
  error,      \* useState<string | null>(null)
  selected,   \* useState<number[]>([])
  cache,      \* the module-level Map, entry API_URL
  ls,         \* localStorage "users_cache"
  toasts,     \* useToasts: items
  idRef,      \* useToasts: idRef.current
  fetching,   \* fetchUsers calls awaiting their response
  insertId,   \* the service: the id the next INSERT is given
  pending,    \* mutations awaiting their response
  last,       \* history: the last step
  consumed,   \* history: ids of the shown toasts whose Undo has run
  nOps,       \* history: operations started
  query,      \* useState("")
  sortBy,     \* useState<keyof User>("name")
  sortDir,    \* useState<"asc" | "desc">("asc")
  page,       \* useState(1)
  pageSize,   \* useState(8)
  csv,        \* a call of toCSV / parseCSV: its argument and its result
  importing,  \* the onImportCSV call awaiting a response
  table,      \* the service: the rows of the table users
  served      \* the service: the requests in flight it has processed

\* The view state of the table.
viewVars == << query, sortBy, sortDir, page, pageSize >>
\* The CSV helpers and the import.
csvVars == << csv, importing >>
\* The service of server.js.  SpecConverge follows its table; the other
\* specifications take the answers of the service as inputs.
srvVars == << table, served >>

vars == << users, loading, error, selected, cache, ls, toasts, idRef,
           fetching, insertId, pending, last, consumed, nOps,
           query, sortBy, sortDir, page, pageSize, csv, importing,
           table, served >>

\* ------------------------------------------------- localStorage and cache
\* localStorage.getItem("users_cache"): null, the text of JSON.stringify(data),
\* or a text JSON.parse rejects.
NoSnapshot == [kind |-> "absent", data |-> <<>>]
Snapshot(data) == [kind |-> "json", data |-> data]
Corrupt == [kind |-> "corrupt", data |-> <<>>]
\* cache.has(key) / cache.get(key)
NoCache == [has |-> FALSE, data |-> <<>>]
Cached(data) == [has |-> TRUE, data |-> data]

\* What the browser may hold in localStorage when the page is opened.
InitSnapshots == { NoSnapshot, Snapshot(<<User(2, Di, DiMail)>>), Corrupt }
\* Lists GET /api/users may answer, and a "users:update" message may carry.
ServerLists == { Seed, <<User(1, Bo, BoMail)>> }
\* e.message of a failed list request: fetch rejected, or `HTTP ${res.status}`.
FetchErrors == { "Failed to fetch", "HTTP 500" }

CatchUsers_ignore(u, snap) == u
\* fetchUsers, catch: if (ls) setUsers(JSON.parse(ls))
CatchUsers(u, snap) == IF snap.kind = "json" THEN snap.data ELSE u
\* fetchUsers, catch: else setError(e?.message || "Failed to load")
CatchError(err, snap, msg) == IF snap.kind = "absent" THEN msg ELSE err

\* ----------------------------------------------------------------- strings
Min(a, b) == IF a < b THEN a ELSE b
Max(a, b) == IF a > b THEN a ELSE b

\* String.prototype.toLowerCase, on the letters of the model.
UpperCase ==
  << "A", "B", "C", "D", "E", "F", "G", "H", "I", "J", "K", "L", "M",
     "N", "O", "P", "Q", "R", "S", "T", "U", "V", "W", "X", "Y", "Z" >>
LowerCase ==
  << "a", "b", "c", "d", "e", "f", "g", "h", "i", "j", "k", "l", "m",
     "n", "o", "p", "q", "r", "s", "t", "u", "v", "w", "x", "y", "z" >>
LowerOf ==
  [ch \in { UpperCase[i] : i \in DOMAIN UpperCase } |->
     LowerCase[CHOOSE i \in DOMAIN UpperCase : UpperCase[i] = ch]]
ToLower(ch) == IF ch \in DOMAIN LowerOf THEN LowerOf[ch] ELSE ch
ToLowerCase(s) == [i \in DOMAIN s |-> ToLower(s[i])]

\* White space of String.prototype.trim.
IsSpace(ch) == ch \in {" ", "\t", "\n", "\r"}
\* String.prototype.trim
RECURSIVE Trim(_)
Trim(s) ==
  IF s = <<>> THEN s
  ELSE IF IsSpace(s[1]) THEN Trim(Tail(s))
  ELSE IF IsSpace(s[Len(s)]) THEN Trim(SubSeq(s, 1, Len(s) - 1))
  ELSE s

\* String.prototype.includes
Includes(hay, needle) ==
  \E k \in 0..(Len(hay) - Len(needle)) :
    SubSeq(hay, k + 1, k + Len(needle)) = needle

\* Array.prototype.slice(a, b), 0 <= a <= b
Slice(s, a, b) == SubSeq(s, a + 1, Min(b, Len(s)))

\* ------------------------------------------------- filter, sort, paginate
\* collator = new Intl.Collator(undefined, { sensitivity: "base", numeric: true }):
\* letters compare without their case, white space and punctuation sort
\* before letters.  The strings of the model hold no digits, so the numeric
\* option does not act.
CollationOrder ==
  << "\t", "\n", "\r", " ", ",", ".", "\"", "@" >> \o LowerCase
RankOf ==
  [ch \in { CollationOrder[i] : i \in DOMAIN CollationOrder } |->
     CHOOSE i \in DOMAIN CollationOrder : CollationOrder[i] = ch]
Rank(ch) == RankOf[ToLower(ch)]
\* collator.compare(a, b): negative, zero or positive.
Collate(a, b) ==
  LET n == Min(Len(a), Len(b))
      diff == { i \in 1..n : Rank(a[i]) # Rank(b[i]) }
  IN IF diff = {}
     THEN Len(a) - Len(b)
     ELSE LET i == CHOOSE d \in diff : \A e \in diff : d <= e
          IN Rank(a[i]) - Rank(b[i])

Cmp_noFlip(a, b, by, dir) ==
  IF by = "id" THEN a.id - b.id ELSE Collate(a[by], b[by])
\* The comparator of filtered: strings by the collator, numbers by value;
\* sortDir "desc" flips the sign.
Cmp(a, b, by, dir) ==
  LET cmp == IF by = "id" THEN a.id - b.id ELSE Collate(a[by], b[by])
  IN IF dir = "asc" THEN cmp ELSE 0 - cmp

\* [...list].sort(comparator): Array.prototype.sort is stable.
RECURSIVE SortUsers(_, _, _)
SortUsers(list, by, dir) ==
  IF list = <<>> THEN <<>>
  ELSE LET init == SortUsers(SubSeq(list, 1, Len(list) - 1), by, dir)
           x == list[Len(list)]
           k == Cardinality({ i \in DOMAIN init : Cmp(init[i], x, by, dir) <= 0 })
       IN SubSeq(init, 1, k) \o <<x>> \o SubSeq(init, k + 1, Len(init))

Matches_caseSensitive(u, q) == Includes(u.name, q) \/ Includes(u.email, q)
\* u.name.toLowerCase().includes(q) || u.email.toLowerCase().includes(q)
Matches(u, q) ==
  Includes(ToLowerCase(u.name), q) \/ Includes(ToLowerCase(u.email), q)

\* const q = query.trim().toLowerCase(); if (q) list = list.filter(...)
FilterUsers(v, qry) ==
  LET q == ToLowerCase(Trim(qry))
  IN IF q = <<>> THEN v ELSE SelectSeq(v, LAMBDA u : Matches(u, q))

\* Math.ceil(a / b) for a >= 0, b > 0
CeilDiv(a, b) == (a + b - 1) \div b

PageSafeOf_noClamp(p, n) == p
\* const pageSafe = Math.min(page, pages)
PageSafeOf(p, n) == Min(p, n)

\* const filtered = useMemo(...)
Filtered == SortUsers(FilterUsers(users, query), sortBy, sortDir)
Total == Len(Filtered)
Pages == Max(1, CeilDiv(Total, pageSize))
PageSafe == PageSafeOf(page, Pages)
Start == (PageSafe - 1) * pageSize
End == Start + pageSize
PageRows == Slice(Filtered, Start, End)

\* The options of the page-size select.
PageSizes == {5, 8, 10, 20, 50}
SortKeys == {"id", "name", "email"}

InitView ==
  /\ query = <<>>
  /\ sortBy = "name"
  /\ sortDir = "asc"
  /\ page = 1
  /\ pageSize = 8

\* ------------------------------------------------------------- CSV helpers
Quote == "\""
Digits == << "0", "1", "2", "3", "4", "5", "6", "7", "8", "9" >>
IsDigit(ch) == \E i \in DOMAIN Digits : Digits[i] = ch
DigitValue(ch) == (CHOOSE i \in DOMAIN Digits : Digits[i] = ch) - 1

\* String(n) of a non-negative integer.
RECURSIVE NumToStr(_)
NumToStr(n) ==
  IF n < 10 THEN << Digits[n + 1] >>
  ELSE NumToStr(n \div 10) \o << Digits[(n % 10) + 1] >>

\* Number(s) where s is no number.  No text of the model denotes a negative
\* number, so no number is taken for it.
NaN == 0 - 1
RECURSIVE DecimalValue(_)
DecimalValue(s) ==
  IF s = <<>> THEN 0
  ELSE 10 * DecimalValue(SubSeq(s, 1, Len(s) - 1)) + DigitValue(s[Len(s)])
\* Number(s): white space around is dropped, "" is 0, digits are their value.
\* (No text of the model holds a sign, a point or an exponent.)
Number(s) ==
  LET t == Trim(s)
  IN IF \A i \in DOMAIN t : IsDigit(t[i]) THEN DecimalValue(t) ELSE NaN

\* String.prototype.replaceAll(from, to), from not empty.
RECURSIVE ReplaceAll(_, _, _)
ReplaceAll(s, from, to) ==
  IF Len(s) < Len(from) THEN s
  ELSE IF SubSeq(s, 1, Len(from)) = from
       THEN to \o ReplaceAll(SubSeq(s, Len(from) + 1, Len(s)), from, to)
       ELSE << s[1] >> \o ReplaceAll(Tail(s), from, to)

\* Array.prototype.join
RECURSIVE Join(_, _)
Join(parts, sep) ==
  IF parts = <<>> THEN <<>>
  ELSE IF Len(parts) = 1 THEN parts[1]
  ELSE parts[1] \o sep \o Join(Tail(parts), sep)

\* String.prototype.split(","): the pieces between the separators.
RECURSIVE Split(_, _)
Split(s, sep) ==
  IF \A i \in DOMAIN s : s[i] # sep THEN << s >>
  ELSE LET k == CHOOSE i \in DOMAIN s : s[i] = sep /\ \A j \in 1..(i - 1) : s[j] # sep
       IN << SubSeq(s, 1, k - 1) >> \o Split(SubSeq(s, k + 1, Len(s)), sep)

\* String.prototype.split(/\r?\n/)
RECURSIVE SplitLines(_)
SplitLines(s) ==
  IF \A i \in DOMAIN s : s[i] # "\n" THEN << s >>
  ELSE LET k == CHOOSE i \in DOMAIN s : s[i] = "\n" /\ \A j \in 1..(i - 1) : s[j] # "\n"
           e == IF k > 1 /\ s[k - 1] = "\r" THEN k - 2 ELSE k - 1
       IN << SubSeq(s, 1, e) >> \o SplitLines(SubSeq(s, k + 1, Len(s)))

\* Array.prototype.indexOf, 0-based, -1 when absent.
IndexOf(seq, x) ==
  IF \E i \in DOMAIN seq : seq[i] = x
  THEN (CHOOSE i \in DOMAIN seq : seq[i] = x /\ \A j \in 1..(i - 1) : seq[j] # x) - 1
  ELSE 0 - 1

\* toCSV: const esc = (v) => `"${String(v ?? "").replaceAll('"', '""')}"`
Esc(v) == << Quote >> \o ReplaceAll(v, << Quote >>, << Quote, Quote >>) \o << Quote >>
CsvHeader == << "i", "d", ",", "n", "a", "m", "e", ",", "e", "m", "a", "i", "l" >>
\* toCSV: ["id,name,email", ...rows.map(r => [r.id, esc(r.name), esc(r.email)].join(","))].join("\n")
toCSV(rows) ==
  Join(<< CsvHeader >> \o
       [i \in DOMAIN rows |->
          Join(<< NumToStr(rows[i].id), Esc(rows[i].name), Esc(rows[i].email) >>, << "," >>)],
       << "\n" >>)

\* parseCSV, the loop over the characters of a line: a quote flips inQ and is
\* dropped, a comma outside quotes ends the cell.
\* st = [cells, cur, inQ]
CellStep(st, ch) ==
  IF ch = Quote THEN [st EXCEPT !.inQ = ~@]
  ELSE IF ch = "," /\ ~st.inQ
       THEN [st EXCEPT !.cells = Append(@, st.cur), !.cur = <<>>]
       ELSE [st EXCEPT !.cur = Append(@, ch)]
RECURSIVE CellScan(_, _)
CellScan(st, line) ==
  IF line = <<>> THEN st ELSE CellScan(CellStep(st, line[1]), Tail(line))
\* ... cells.push(cur)
Cells(line) ==
  LET st == CellScan([cells |-> <<>>, cur |-> <<>>, inQ |-> FALSE], line)
  IN Append(st.cells, st.cur)

\* .replace(/^"|"$/g, "")
StripQuotes(c) ==
  LET a == IF c # <<>> /\ c[1] = Quote THEN Tail(c) ELSE c
  IN IF a # <<>> /\ a[Len(a)] = Quote THEN SubSeq(a, 1, Len(a) - 1) ELSE a

\* const get = (i) => (i >= 0 ? cells[i]?.replace(...).replaceAll('""', '"') : undefined)
\* followed by `|| ""` (or `|| 0`): undefined and "" both give <<>> here.
Get(cells, i) ==
  IF i >= 0 /\ i < Len(cells)
  THEN ReplaceAll(StripQuotes(cells[i + 1]), << Quote, Quote >>, << Quote >>)
  ELSE <<>>

\* parseCSV, the body of the loop over the lines.
ParseLine(line, idx) ==
  LET cells == Cells(line)
      id == IF Get(cells, idx.id) = <<>> THEN 0 ELSE Number(Get(cells, idx.id))
  IN User(id, Get(cells, idx.name), Get(cells, idx.email))

\* parseCSV
parseCSV(text) ==
  LET lines == SplitLines(Trim(text))
      header == [i \in DOMAIN Split(lines[1], ",") |->
                   ToLowerCase(Trim(Split(lines[1], ",")[i]))]
      idx == [id |-> IndexOf(header, << "i", "d" >>),
              name |-> IndexOf(header, << "n", "a", "m", "e" >>),
              email |-> IndexOf(header, << "e", "m", "a", "i", "l" >>)]
      rest == Tail(lines)
  IN [i \in DOMAIN rest |-> ParseLine(rest[i], idx)]

\* A call of the CSV helpers: its argument and its result.
\*   op     "export" | "roundtrip" | "parse"
\*   rows   the argument of toCSV
\*   lines  the lines the argument of parseCSV was made of
\*   text   the result of toCSV, the argument of parseCSV
\*   out    the result of parseCSV
NoCsv == [op |-> "none", rows |-> <<>>, lines |-> <<>>, text |-> <<>>, out |-> <<>>]
\* An onImportCSV call awaiting a response.
\*   phase  "idle" | "posting" | "fetching"
\*   sent   the body of the POST in flight
\*   rows   the rows still to be posted
\*   n      rows.length
NoImport == [phase |-> "idle", sent |-> NoValues, rows |-> <<>>, n |-> 0]

InitCsv ==
  /\ csv = NoCsv
  /\ importing = NoImport

Init ==
  /\ users = <<>>
  /\ loading = TRUE
  /\ error = NULL
  /\ selected = <<>>
  /\ cache = NoCache
  /\ ls \in InitSnapshots
  /\ toasts = <<>>
  /\ idRef = 1
  /\ fetching = 1        \* useEffect(() => { fetchUsers(); }, [fetchUsers])
  /\ insertId = Len(Seed) + 1
  /\ pending = <<>>
  /\ last = Last("mount", NoMutation, 0)
  /\ consumed = {}
  /\ nOps = 0
  /\ InitView
  /\ InitCsv
  /\ table = SeqToSet(Seed)
  /\ served = {}

\* ------------------------------------------------------------- fetchUsers
\* The Refresh button (disabled while loading) or the banner's Retry:
\* fetchUsers up to its await.
FetchUsers ==
  /\ nOps < MaxOps
  /\ ~loading \/ error # NULL
  /\ loading' = TRUE
  /\ error' = NULL
  /\ users' = IF cache.has THEN cache.data ELSE users
  /\ fetching' = fetching + 1
  /\ pending' = Touch(pending)
  /\ last' = Last("fetch", Mutation("fetch", 0, <<>>, NoValues, users, 0, nOps + 1), 0)
  /\ nOps' = nOps + 1
  /\ UNCHANGED << selected, cache, ls, toasts, idRef, insertId, consumed >>
  /\ UNCHANGED << viewVars, csvVars, srvVars >>

FinallyLoading_keep(l) == l
\* fetchUsers, finally: setLoading(false)
FinallyLoading(l) == FALSE

\* The catch and finally blocks of fetchUsers, entered with error message msg
\* after users has become u.
FetchCatch(u, msg, op) ==
  /\ users' = CatchUsers(u, ls)
  /\ error' = CatchError(error, ls, msg)
  /\ IF ls.kind = "json"
     THEN /\ toasts' = PushToast(toasts, idRef, "info", "Loaded offline cache", NoUser, FALSE)
          /\ idRef' = idRef + 1
     ELSE UNCHANGED << toasts, idRef >>
  /\ loading' = FinallyLoading(loading)
  /\ last' = [Last(op, NoMutation, 0) EXCEPT !.msg = msg]

\* The list request is answered 200 with data and the snapshot is saved.
FetchOk(data) ==
  /\ fetching > 0
  /\ fetching' = fetching - 1
  /\ cache' = Cached(data)
  /\ users' = data
  /\ ls' = Snapshot(data)
  /\ loading' = FinallyLoading(loading)
  /\ pending' = Touch(pending)
  /\ last' = Last("fetchOk", NoMutation, 0)
  /\ UNCHANGED << error, selected, toasts, idRef, insertId, consumed, nOps >>
  /\ UNCHANGED << viewVars, csvVars, srvVars >>

\* The list request is answered 200 with data and localStorage.setItem throws.
FetchOkSaveFails(data) ==
  /\ fetching > 0
  /\ fetching' = fetching - 1
  /\ cache' = Cached(data)
  /\ FetchCatch(data, "QuotaExceededError", "fetchOkSaveFails")
  /\ pending' = Touch(pending)
  /\ UNCHANGED << selected, ls, insertId, consumed, nOps >>
  /\ UNCHANGED << viewVars, csvVars, srvVars >>

\* The list request fails: fetch rejects, or the status is not 2xx.
FetchFail(msg) ==
  /\ fetching > 0
  /\ fetching' = fetching - 1
  /\ FetchCatch(users, msg, "fetchFail")
  /\ pending' = Touch(pending)
  /\ UNCHANGED << selected, cache, ls, insertId, consumed, nOps >>
  /\ UNCHANGED << viewVars, csvVars, srvVars >>

\* ------------------------------------------------------- WebSocket message
\* ws.onmessage with a "users:update" message: setUsers(msg.payload)
PushUpdate(payload) ==
  /\ nOps < MaxOps
  /\ users' = payload
  /\ pending' = Touch(pending)
  /\ last' = Last("push", NoMutation, 0)
  /\ nOps' = nOps + 1
  /\ UNCHANGED << loading, error, selected, cache, ls, toasts, idRef, fetching,
                  insertId, consumed >>
  /\ UNCHANGED << viewVars, csvVars, srvVars >>

\* ws.onmessage with a text JSON.parse rejects, or a message of another type.
PushDropped ==
  /\ nOps < MaxOps
  /\ last' = Last("pushDropped", NoMutation, 0)
  /\ nOps' = nOps + 1
  /\ UNCHANGED << users, loading, error, selected, cache, ls, toasts, idRef,
                  fetching, insertId, pending, consumed >>
  /\ UNCHANGED << viewVars, csvVars, srvVars >>

\* -------------------------------------------------------------- updateUser
\* The edit form of a row is submitted: updateUser up to its await.
UpdateUser(id, values) ==
  /\ nOps < MaxOps
  /\ ~loading /\ Has(users, id)          \* the row's Edit button is rendered
  /\ users' = OptimisticUpdate(users, id, values)
  /\ pending' = Append(Touch(pending),
                       Mutation("update", id, <<>>, values, users, 0, nOps + 1))
  /\ last' = Last("update", Mutation("update", id, <<>>, values, users, 0, nOps + 1), 0)
  /\ nOps' = nOps + 1
  /\ UNCHANGED << loading, error, selected, cache, ls, toasts, idRef, fetching,
                  insertId, consumed >>
  /\ UNCHANGED << viewVars, csvVars, srvVars >>

\* The PUT is answered 2xx; data is the body (NoUser: a body res.json() rejects).
UpdateOk(i, data) ==
  /\ i \in DOMAIN pending /\ pending[i].kind = "update"
  /\ users' = ServerReplace(users, pending[i].id, data)
  /\ toasts' = PushToast(toasts, idRef, "success", "Changes saved", NoUser, FALSE)
  /\ idRef' = idRef + 1
  /\ pending' = Touch(RemoveAt(pending, i))
  /\ last' = Last("updateOk", pending[i], 0)
  /\ UNCHANGED << loading, error, selected, cache, ls, fetching, insertId,
                  consumed, nOps >>
  /\ UNCHANGED << viewVars, csvVars, srvVars >>

\* The PUT fails: fetch rejects (msg its message) or the status is not 2xx
\* (msg "Update failed").
UpdateFail(i, msg) ==
  /\ i \in DOMAIN pending /\ pending[i].kind = "update"
  /\ users' = Rollback(users, pending[i].prev)
  /\ toasts' = PushToast(toasts, idRef, "error", msg, NoUser, FALSE)
  /\ idRef' = idRef + 1
  /\ pending' = Touch(RemoveAt(pending, i))
  /\ last' = [Last("updateFail", pending[i], 0) EXCEPT !.msg = msg]
  /\ UNCHANGED << loading, error, selected, cache, ls, fetching, insertId,
                  consumed, nOps >>
  /\ UNCHANGED << viewVars, csvVars, srvVars >>

\* -------------------------------------------------------------- removeUser
\* The Delete button of a row: removeUser up to its await.
RemoveUser(id) ==
  /\ nOps < MaxOps
  /\ ~loading /\ Has(users, id)          \* the row's Delete button is rendered
  /\ users' = OptimisticRemove(users, id)
  /\ toasts' = PushToast(toasts, idRef, "info", "User deleted", Find(users, id), TRUE)
  /\ idRef' = idRef + 1
  /\ pending' = Append(Touch(pending),
                       Mutation("remove", id, <<>>, NoValues, users, idRef, nOps + 1))
  /\ last' = Last("remove", Mutation("remove", id, <<>>, NoValues, users, idRef, nOps + 1), idRef)
  /\ nOps' = nOps + 1
  /\ UNCHANGED << loading, error, selected, cache, ls, fetching, insertId,
                  consumed >>
  /\ UNCHANGED << viewVars, csvVars, srvVars >>

\* The DELETE is answered 2xx.
RemoveOk(i) ==
  /\ i \in DOMAIN pending /\ pending[i].kind = "remove"
  /\ pending' = Touch(RemoveAt(pending, i))
  /\ last' = Last("removeOk", pending[i], pending[i].tok)
  /\ UNCHANGED << users, loading, error, selected, cache, ls, toasts, idRef,
                  fetching, insertId, consumed, nOps >>
  /\ UNCHANGED << viewVars, csvVars, srvVars >>

\* The DELETE fails: fetch rejects or the status is not 2xx ("Delete failed").
RemoveFail(i, msg) ==
  /\ i \in DOMAIN pending /\ pending[i].kind = "remove"
  /\ users' = Rollback(users, pending[i].prev)
  /\ toasts' = PushToast(toasts, idRef, "error", msg, NoUser, FALSE)
  /\ idRef' = idRef + 1
  /\ pending' = Touch(RemoveAt(pending, i))
  /\ last' = [Last("removeFail", pending[i], pending[i].tok) EXCEPT !.msg = msg]
  /\ UNCHANGED << loading, error, selected, cache, ls, fetching, insertId,
                  consumed, nOps >>
  /\ UNCHANGED << viewVars, csvVars, srvVars >>

\* ------------------------------------------------------ the toast's Undo
\* The Undo button of the toast at position k is clicked: t.action().
UndoClick(k) ==
  /\ k \in DOMAIN toasts /\ toasts[k].action
  /\ Len(users) < MaxUsers
  /\ users' = UndoInsert(users, toasts[k].removed)
  /\ consumed' = consumed \cup { toasts[k].id }
  /\ pending' = Touch(pending)
  /\ last' = [ Last("undo", NoMutation, toasts[k].id)
                 EXCEPT !.again = toasts[k].id \in consumed ]
  /\ UNCHANGED << loading, error, selected, cache, ls, toasts, idRef, fetching,
                  insertId, nOps >>
  /\ UNCHANGED << viewVars, csvVars, srvVars >>

\* ------------------------------------------------------------------ time
\* TickStep units of time pass; no timer is overdue.
Tick ==
  /\ toasts # <<>>
  /\ \A k \in DOMAIN toasts : toasts[k].age < ToastWindow
  /\ toasts' = [k \in DOMAIN toasts |-> [toasts[k] EXCEPT !.age = @ + TickStep]]
  /\ last' = Last("tick", NoMutation, 0)
  /\ UNCHANGED << users, loading, error, selected, cache, ls, idRef, fetching,
                  insertId, pending, consumed, nOps >>
  /\ UNCHANGED << viewVars, csvVars, srvVars >>

\* The timer of the toast at position k fires, 4000 ms after its push.
TimerFire(k) ==
  /\ k \in DOMAIN toasts /\ toasts[k].age = ToastWindow
  /\ toasts' = ToastExpire(toasts, toasts[k].id)
  /\ consumed' = consumed \ { toasts[k].id }
  /\ last' = Last("expire", NoMutation, toasts[k].id)
  /\ UNCHANGED << users, loading, error, selected, cache, ls, idRef, fetching,
                  insertId, pending, nOps >>
  /\ UNCHANGED << viewVars, csvVars, srvVars >>

\* ----------------------------------------------------------- the selection
\* The checkbox of a row:
\* setSelected(s => s.includes(id) ? s.filter(x => x !== id) : [...s, id])
ToggleSelect(id) ==
  /\ ~loading /\ Has(users, id)          \* the row is rendered
  /\ selected' = IF id \in SeqToSet(selected)
                 THEN SelectSeq(selected, LAMBDA x : x # id)
                 ELSE Append(selected, id)
  /\ last' = Last("select", NoMutation, 0)
  /\ UNCHANGED << users, loading, error, cache, ls, toasts, idRef, fetching,
                  insertId, pending, consumed, nOps >>
  /\ UNCHANGED << viewVars, csvVars, srvVars >>

\* The "Select page" checkbox of the table header:
\* setSelected(s => allVisibleSelected
\*   ? s.filter(id => !pageRows.some(r => r.id === id))
\*   : Array.from(new Set([...s, ...pageRows.map(r => r.id)])))
SelectPage ==
  /\ LET rows == PageRows
         shown == { rows[k].id : k \in DOMAIN rows }
         allVisibleSelected == rows # <<>> /\ shown \subseteq SeqToSet(selected)
         more == SelectSeq([k \in DOMAIN rows |-> rows[k].id],
                           LAMBDA x : x \notin SeqToSet(selected))
     IN selected' = IF allVisibleSelected
                    THEN SelectSeq(selected, LAMBDA x : x \notin shown)
                    ELSE selected \o more
  /\ last' = Last("selectPage", NoMutation, 0)
  /\ UNCHANGED << users, loading, error, cache, ls, toasts, idRef, fetching,
                  insertId, pending, consumed, nOps >>
  /\ UNCHANGED << viewVars, csvVars, srvVars >>

\* ---------------------------------------------------------- removeSelected
\* `Deleted ${ids.length} user(s)`
DeletedMsg(n) ==
  CASE n = 1 -> "Deleted 1 user(s)"
    [] n = 2 -> "Deleted 2 user(s)"
    [] OTHER -> "Deleted n user(s)"

\* "Delete selected" is confirmed: removeSelected up to its await.
RemoveSelected ==
  /\ nOps < MaxOps
  /\ selected # <<>>                     \* the button is enabled
  /\ users' = BulkRemove(users, selected)
  /\ selected' = <<>>
  /\ pending' = Append(Touch(pending),
                       Mutation("bulk", 0, selected, NoValues, users, 0, nOps + 1))
  /\ last' = Last("bulk", Mutation("bulk", 0, selected, NoValues, users, 0, nOps + 1), 0)
  /\ nOps' = nOps + 1
  /\ UNCHANGED << loading, error, cache, ls, toasts, idRef, fetching, insertId,
                  consumed >>
  /\ UNCHANGED << viewVars, csvVars, srvVars >>

\* The DELETE of id resolves, with a 2xx status (ok) or another one: its
\* promise is fulfilled either way, and Promise.all is once every one is.
BulkResolve(i, id, ok) ==
  /\ i \in DOMAIN pending /\ pending[i].kind = "bulk"
  /\ id \in pending[i].waiting
  /\ LET m == [pending[i] EXCEPT !.waiting = @ \ {id},
                                 !.bad = IF ok THEN @ ELSE @ \cup {id}]
     IN IF m.waiting = {}
        THEN /\ toasts' = PushToast(toasts, idRef, "success",
                                    DeletedMsg(Len(m.ids)), NoUser, FALSE)
             /\ idRef' = idRef + 1
             /\ pending' = Touch(RemoveAt(pending, i))
             /\ last' = Last("bulkDone", m, 0)
        ELSE /\ pending' = [Touch(pending) EXCEPT ![i] = m]
             /\ last' = Last("bulkAnswer", m, 0)
             /\ UNCHANGED << toasts, idRef >>
  /\ UNCHANGED << users, loading, error, selected, cache, ls, fetching, insertId,
                  consumed, nOps >>
  /\ UNCHANGED << viewVars, csvVars, srvVars >>

\* The DELETE of id rejects (transport failure): Promise.all rejects at once
\* and the catch block runs, the other requests still in flight.
BulkReject(i, id) ==
  /\ i \in DOMAIN pending /\ pending[i].kind = "bulk"
  /\ id \in pending[i].waiting
  /\ users' = Rollback(users, pending[i].prev)
  /\ toasts' = PushToast(toasts, idRef, "error", "Bulk delete failed", NoUser, FALSE)
  /\ idRef' = idRef + 1
  /\ pending' = Touch(RemoveAt(pending, i))
  /\ last' = Last("bulkFail", [pending[i] EXCEPT !.waiting = @ \ {id}], 0)
  /\ UNCHANGED << loading, error, selected, cache, ls, fetching, insertId,
                  consumed, nOps >>
  /\ UNCHANGED << viewVars, csvVars, srvVars >>

\* -------------------------------------------------------------- createUser
\* The create form is submitted: createUser up to its await.
CreateUser(values) ==
  /\ nOps < MaxOps
  /\ pending' = Append(Touch(pending),
                       Mutation("create", 0, <<>>, values, users, 0, nOps + 1))
  /\ last' = Last("create", Mutation("create", 0, <<>>, values, users, 0, nOps + 1), 0)
  /\ nOps' = nOps + 1
  /\ UNCHANGED << users, loading, error, selected, cache, ls, toasts, idRef,
                  fetching, insertId, consumed >>
  /\ UNCHANGED << viewVars, csvVars, srvVars >>

\* POST /api/users answers 201 { id: result.insertId, name, email }.
ServerPost(id, values) == User(id, values.name, values.email)

CreateInsert_only(v, created) == << created >>
\* createUser: setUsers(v => [created, ...v])
CreateInsert(v, created) == << created >> \o v

\* createUser once the POST has been answered 201 with the record created.
CreateApply(i, created) ==
  /\ i \in DOMAIN pending /\ pending[i].kind = "create"
  /\ Len(users) < MaxUsers
  /\ users' = CreateInsert(users, created)
  /\ toasts' = PushToast(toasts, idRef, "success", "User created", NoUser, FALSE)
  /\ idRef' = idRef + 1
  /\ pending' = Touch(RemoveAt(pending, i))
  /\ last' = Last("createOk", pending[i], 0)
  /\ UNCHANGED << loading, error, selected, cache, ls, fetching, consumed,
                  nOps >>
  /\ UNCHANGED << viewVars, csvVars >>

\* The POST is answered 201 with the created record.
CreateOk(i) ==
  /\ CreateApply(i, ServerPost(insertId, pending[i].values))
  /\ insertId' = insertId + 1
  /\ UNCHANGED srvVars

\* The POST fails: createUser throws, nothing catches it in the component.
CreateFail(i) ==
  /\ i \in DOMAIN pending /\ pending[i].kind = "create"
  /\ pending' = Touch(RemoveAt(pending, i))
  /\ last' = Last("createFail", pending[i], 0)
  /\ UNCHANGED << users, loading, error, selected, cache, ls, toasts, idRef,
                  fetching, insertId, consumed, nOps >>
  /\ UNCHANGED << viewVars, csvVars, srvVars >>

\* ------------------------------------------------------------- the service
\* A request the service has processed: the number of the operation, the id
\* of the request's path (0 for a POST) and the record of the answer.
Served(n, id, row) == [n |-> n, id |-> id, row |-> row]
IsServed(m, id) == \E a \in served : a.n = m.n /\ a.id = id
\* The rows of the table with this id.
Rows(id) == { r \in table : r.id = id }

\* app.post: INSERT INTO users (name, email); 201 { id: result.insertId, name, email }
ServePost(i) ==
  /\ i \in DOMAIN pending /\ pending[i].kind = "create"
  /\ ~IsServed(pending[i], 0)
  /\ table' = table \cup { ServerPost(insertId, pending[i].values) }
  /\ insertId' = insertId + 1
  /\ served' = served \cup
                 { Served(pending[i].n, 0, ServerPost(insertId, pending[i].values)) }
  /\ UNCHANGED << users, loading, error, selected, cache, ls, toasts, idRef,
                  fetching, pending, last, consumed, nOps, viewVars, csvVars >>

\* app.put: UPDATE users SET name, email WHERE id, a row affected;
\* 200 { id, name, email }
ServePut(i) ==
  /\ i \in DOMAIN pending /\ pending[i].kind = "update"
  /\ ~IsServed(pending[i], pending[i].id)
  /\ Rows(pending[i].id) # {}
  /\ table' = (table \ Rows(pending[i].id))
                 \cup { ServerPut(pending[i].id, pending[i].values) }
  /\ served' = served \cup
                 { Served(pending[i].n, pending[i].id,
                          ServerPut(pending[i].id, pending[i].values)) }
  /\ UNCHANGED << users, loading, error, selected, cache, ls, toasts, idRef,
                  fetching, insertId, pending, last, consumed, nOps, viewVars,
                  csvVars >>

\* app.delete: DELETE FROM users WHERE id, a row affected; 200.  The request
\* of removeUser, or one of the requests of removeSelected.
ServeDelete(i, id) ==
  /\ i \in DOMAIN pending
  /\ \/ pending[i].kind = "remove" /\ id = pending[i].id
     \/ pending[i].kind = "bulk" /\ id \in pending[i].waiting
  /\ ~IsServed(pending[i], id)
  /\ Rows(id) # {}
  /\ table' = table \ Rows(id)
  /\ served' = served \cup { Served(pending[i].n, id, NoUser) }
  /\ UNCHANGED << users, loading, error, selected, cache, ls, toasts, idRef,
                  fetching, insertId, pending, last, consumed, nOps, viewVars,
                  csvVars >>

\* ---------------------------------------------------------- the view state
\* What the handlers of the view leave alone.
dataVars == << users, loading, error, selected, cache, ls, toasts, idRef,
               fetching, insertId, pending, consumed, nOps, srvVars >>

\* The search input: onChange={(e) => setQuery(e.target.value)}
SetQuery(q) ==
  /\ query' = q
  /\ last' = Last("view", NoMutation, 0)
  /\ UNCHANGED << sortBy, sortDir, page, pageSize, dataVars, csvVars >>

\* A column header:
\* if (sortBy === col) setSortDir(d => d === "asc" ? "desc" : "asc"); else setSortBy(col)
SortClick(col) ==
  /\ IF sortBy = col
     THEN /\ sortDir' = IF sortDir = "asc" THEN "desc" ELSE "asc"
          /\ UNCHANGED sortBy
     ELSE /\ sortBy' = col
          /\ UNCHANGED sortDir
  /\ last' = Last("view", NoMutation, 0)
  /\ UNCHANGED << query, page, pageSize, dataVars, csvVars >>

\* The page buttons; the first two are disabled on page 1, the last two on
\* the last page.
PageFirst ==
  /\ PageSafe # 1
  /\ page' = 1
  /\ last' = Last("view", NoMutation, 0)
  /\ UNCHANGED << query, sortBy, sortDir, pageSize, dataVars, csvVars >>

PagePrev ==
  /\ PageSafe # 1
  /\ page' = Max(1, page - 1)
  /\ last' = Last("view", NoMutation, 0)
  /\ UNCHANGED << query, sortBy, sortDir, pageSize, dataVars, csvVars >>

PageNext ==
  /\ PageSafe # Pages
  /\ page' = Min(Pages, page + 1)
  /\ last' = Last("view", NoMutation, 0)
  /\ UNCHANGED << query, sortBy, sortDir, pageSize, dataVars, csvVars >>

PageLast ==
  /\ PageSafe # Pages
  /\ page' = Pages
  /\ last' = Last("view", NoMutation, 0)
  /\ UNCHANGED << query, sortBy, sortDir, pageSize, dataVars, csvVars >>

\* The page-size select: setPageSize(Number(e.target.value)); setPage(1)
SetPageSize(n) ==
  /\ pageSize' = n
  /\ page' = 1
  /\ last' = Last("view", NoMutation, 0)
  /\ UNCHANGED << query, sortBy, sortDir, dataVars, csvVars >>

\* ------------------------------------------------------------ CSV actions
\* The Export CSV button: new Blob([toCSV(filtered)]); the file is downloaded.
ExportCSV ==
  /\ csv' = [op |-> "export", rows |-> Filtered, lines |-> <<>>,
             text |-> toCSV(Filtered), out |-> <<>>]
  /\ last' = Last("export", NoMutation, 0)
  /\ UNCHANGED << dataVars, viewVars, importing >>

\* runSelfTests: const csv = toCSV(rows); const parsed = parseCSV(csv)
CsvRoundTrip(rows) ==
  /\ csv.op = "none"                     \* once, on mount
  /\ csv' = [op |-> "roundtrip", rows |-> rows, lines |-> <<>>,
             text |-> toCSV(rows), out |-> parseCSV(toCSV(rows))]
  /\ last' = Last("selfTest", NoMutation, 0)
  /\ UNCHANGED << dataVars, viewVars, importing >>

\* parseCSV of the text made of these lines.
CsvParse(lines) ==
  /\ csv.op \in {"none", "export"}
  /\ csv' = [op |-> "parse", rows |-> <<>>, lines |-> lines,
             text |-> Join(lines, << "\n" >>),
             out |-> parseCSV(Join(lines, << "\n" >>))]
  /\ last' = Last("parse", NoMutation, 0)
  /\ UNCHANGED << dataVars, viewVars, importing >>

\* ------------------------------------------------------------- onImportCSV
\* UserSchema: name z.string().min(2), email z.string().email(): one "@", a
\* local part, a domain of two or more labels, the last of two letters or more,
\* and no white space.
EmailOk(e) ==
  /\ Cardinality({ i \in DOMAIN e : e[i] = "@" }) = 1
  /\ \A i \in DOMAIN e : ~IsSpace(e[i]) /\ e[i] # "," /\ e[i] # Quote
  /\ LET at == CHOOSE i \in DOMAIN e : e[i] = "@"
         labels == Split(SubSeq(e, at + 1, Len(e)), ".")
     IN /\ at > 1
        /\ Len(labels) >= 2
        /\ \A k \in DOMAIN labels : labels[k] # <<>>
        /\ Len(labels[Len(labels)]) >= 2
UserSchemaOk(values) == Len(values.name) >= 2 /\ EmailOk(values.email)

\* `Imported ${rows.length} users`
ImportedMsg(n) ==
  CASE n = 0 -> "Imported 0 users"
    [] n = 1 -> "Imported 1 users"
    [] n = 2 -> "Imported 2 users"
    [] OTHER -> "Imported n users"

\* parseCSV(text).filter(r => r.name && r.email)
ImportRows(text) ==
  SelectSeq(parseCSV(text), LAMBDA r : r.name # <<>> /\ r.email # <<>>)

\* onImportCSV sends the POST of the first of rows, or, with no row left,
\* calls fetchUsers (up to its await).
ImportContinue(rows, n) ==
  IF rows # <<>>
  THEN /\ importing' = [phase |-> "posting",
                        sent |-> [name |-> rows[1].name, email |-> rows[1].email],
                        rows |-> Tail(rows), n |-> n]
       /\ UNCHANGED << users, loading, error, fetching >>
  ELSE /\ importing' = [phase |-> "fetching", sent |-> NoValues, rows |-> <<>>, n |-> n]
       /\ loading' = TRUE
       /\ error' = NULL
       /\ users' = IF cache.has THEN cache.data ELSE users
       /\ fetching' = fetching + 1

\* A file is chosen in the Import CSV input: onImportCSV up to its first
\* await of a request.
ImportCSV(text) ==
  /\ nOps < MaxOps
  /\ importing.phase = "idle"
  /\ ImportContinue(ImportRows(text), Len(ImportRows(text)))
  /\ pending' = Touch(pending)
  /\ last' = Last("import", NoMutation, 0)
  /\ nOps' = nOps + 1
  /\ UNCHANGED << selected, cache, ls, toasts, idRef, insertId, consumed,
                  viewVars, csv, srvVars >>

\* The POST of the import resolves, whatever its status (res is not looked
\* at); created: the service has inserted the row.
ImportPostAnswered(created) ==
  /\ importing.phase = "posting"
  /\ insertId' = IF created THEN insertId + 1 ELSE insertId
  /\ ImportContinue(importing.rows, importing.n)
  /\ pending' = Touch(pending)
  /\ last' = Last("importPost", NoMutation, 0)
  /\ UNCHANGED << selected, cache, ls, toasts, idRef, consumed, nOps,
                  viewVars, csv, srvVars >>

\* The POST of the import rejects: onImportCSV throws, nothing catches it.
ImportPostRejected ==
  /\ importing.phase = "posting"
  /\ importing' = NoImport
  /\ last' = Last("importAbort", NoMutation, 0)
  /\ UNCHANGED << dataVars, viewVars, csv >>

\* fetchUsers has returned to onImportCSV:
\* push({ type: "success", msg: `Imported ${rows.length} users` })
ImportDone ==
  /\ importing.phase = "fetching"
  /\ fetching = 0
  /\ toasts' = PushToast(toasts, idRef, "success", ImportedMsg(importing.n), NoUser, FALSE)
  /\ idRef' = idRef + 1
  /\ importing' = NoImport
  /\ last' = Last("importDone", NoMutation, 0)
  /\ UNCHANGED << users, loading, error, selected, cache, ls, fetching,
                  insertId, pending, consumed, nOps, viewVars, csv, srvVars >>

\* The create form is submitted: handleSubmit runs the zodResolver of
\* UserSchema and calls onSubmit, which calls createUser, only on valid values.
SubmitCreate(values) ==
  /\ UserSchemaOk(values)
  /\ CreateUser(values)

\* ------------------------------------------------------------------ inputs
\* The table: filter, sort and pages of a list longer than a page.
ViewSeed ==
  << User(1, <<"A", "l">>, <<"a", "@", "x">>),
     User(2, <<"D", "i">>, <<"d", "@", "x">>),
     User(3, <<"B", "o">>, <<"b", "@", "x">>),
     User(4, <<"C", "y">>, <<"c", "@", "y">>),
     User(5, <<"A", "l", "i">>, <<"a", "@", "y">>),
     User(6, <<"a", "l">>, <<"l", "@", "z">>),
     User(7, <<"D", "a">>, <<"D", "@", "x">>),
     User(8, <<"B", "a">>, <<"B", "@", "y">>),
     User(9, <<"C", "o">>, <<"c", "@", "z">>),
     User(10, <<"I", "d">>, <<"i", "@", "x">>),
     User(11, <<"d", "i">>, <<"d", "@", "y">>) >>
\* Lists a "users:update" message may carry.
ViewLists == { ViewSeed, SubSeq(ViewSeed, 1, 6), <<>> }
\* Texts typed into the search input.
Queries ==
  { <<>>, <<" ">>, <<"A", "L">>, <<"a", "l", " ">>, <<"@", "x">> }
ViewIds == {1}

\* The CSV helpers on record lists and texts with commas, quotes, line breaks
\* and blank lines.
CsvRecords ==
  { User(i, n, e) :
      i \in {1, 2, 10},
      n \in { <<"a", "b">>, <<"a", ",", "b">>, <<"a", "\"", "b">>, <<"a", "\n", "b">> },
      e \in { <<"a", "@", "x">>, <<"\"", "a", "\"", "@", "x">> } }
CsvLists == UNION { [1..n -> CsvRecords] : n \in 0..MaxRows }
\* Header lines: all three columns, no id column, no name column, no email
\* column.
CsvHeaders ==
  { CsvHeader,
    << "i", "d", ",", "n", "a", "m", "e" >>,
    << "n", "a", "m", "e", ",", "e", "m", "a", "i", "l" >>,
    << "e", "m", "a", "i", "l", ",", "i", "d" >> }
\* Data lines: quoted cells, bare cells, the empty line, a line of spaces.
CsvDataLines ==
  { << "1", ",", "\"", "a", "b", "\"", ",", "\"", "a", "@", "x", "\"" >>,
    << "2", ",", "c", "d", ",", "c", "@", "x" >>,
    <<>>,
    << " ", " " >> }
CsvLineLists ==
  UNION { { <<h>> \o d : h \in CsvHeaders, d \in [1..n -> CsvDataLines] } :
          n \in 0..(MaxRows + 1) }
\* The rows of the page in the specifications of the CSV helpers.
TableSeed ==
  << User(1, <<"a", "b">>, <<"a", "@", "x", ".", "c", "o">>),
     User(2, <<"a", ",", "b">>, <<"b", "@", "x", ".", "c", "o">>) >>

\* The import of CSV files next to the create form.
ImportNames == { <<"a", "b">>, <<"a">> }
ImportEmails == { <<"a", "@", "x", ".", "c", "o">>, <<"b", "a", "d">> }
\* The files chosen: exports of lists of records of these.
ImportTexts ==
  { toCSV(r) :
      r \in UNION { [1..n -> { User(1, a, e) : a \in ImportNames, e \in ImportEmails }] :
                    n \in 0..MaxRows } }
\* What is typed into the create form.
FormInputs == { [name |-> n, email |-> e] : n \in ImportNames, e \in ImportEmails }
\* Lists GET /api/users may answer.
TableLists ==
  { TableSeed,
    TableSeed \o << User(3, <<"a", "b">>, <<"a", "@", "x", ".", "c", "o">>) >> }

\* Messages of the WebSocket: well-formed updates, messages the handler
\* ignores, and "users:update" messages whose payload holds something that is
\* no User (a field missing).
MalformedPayloads ==
  { << [id |-> 7] >>,
    << User(1, Al, AlMail), [id |-> 2, name |-> Di] >> }

\* ------------------------------------------------------------ specification
\* e.message of a rejected fetch, and of the handlers' own throw.
UpdateErrors == { "Failed to fetch", "Update failed" }
RemoveErrors == { "Failed to fetch", "Delete failed" }

Next ==
  \/ FetchUsers
  \/ \E data \in ServerLists : FetchOk(data)
  \/ \E data \in ServerLists : FetchOkSaveFails(data)
  \/ \E msg \in FetchErrors : FetchFail(msg)
  \/ \E payload \in ServerLists : PushUpdate(payload)
  \/ PushDropped
  \/ \E id \in IdSet, values \in FormValues : UpdateUser(id, values)
  \/ \E i \in DOMAIN pending :
        \E data \in { ServerPut(pending[i].id, pending[i].values), NoUser } :
          UpdateOk(i, data)
  \/ \E i \in DOMAIN pending, msg \in UpdateErrors : UpdateFail(i, msg)
  \/ \E id \in IdSet : RemoveUser(id)
  \/ \E i \in DOMAIN pending : RemoveOk(i)
  \/ \E i \in DOMAIN pending, msg \in RemoveErrors : RemoveFail(i, msg)
  \/ \E k \in DOMAIN toasts : UndoClick(k)
  \/ Tick
  \/ \E k \in DOMAIN toasts : TimerFire(k)
  \/ \E id \in IdSet : ToggleSelect(id)
  \/ SelectPage
  \/ RemoveSelected
  \/ \E i \in DOMAIN pending, id \in IdSet, ok \in BOOLEAN : BulkResolve(i, id, ok)
  \/ \E i \in DOMAIN pending, id \in IdSet : BulkReject(i, id)
  \/ \E values \in FormValues : CreateUser(values)
  \/ \E i \in DOMAIN pending : CreateOk(i)
  \/ \E i \in DOMAIN pending : CreateFail(i)
  \/ \E values \in FormInputs : SubmitCreate(values)
  \/ \E q \in Queries : SetQuery(q)
  \/ \E col \in SortKeys : SortClick(col)
  \/ PageFirst
  \/ PagePrev
  \/ PageNext
  \/ PageLast
  \/ \E n \in PageSizes : SetPageSize(n)
  \/ ExportCSV
  \/ \E rows \in CsvLists : CsvRoundTrip(rows)
  \/ \E lines \in CsvLineLists : CsvParse(lines)
  \/ \E text \in ImportTexts : ImportCSV(text)
  \/ \E created \in BOOLEAN : ImportPostAnswered(created)
  \/ ImportPostRejected
  \/ ImportDone

\* The whole page: every handler, response and timer from the mount on.
Spec == Init /\ [][Next]_vars

\* The scenarios below run parts of Next, each from a state Spec reaches, with
\* the same actions; they keep the state spaces within reach of the bounds.

\* The page once the first list request has been answered with Seed:
\* the state FetchOk(Seed) leads to from Init.
InitLoaded ==
  /\ users = Seed
  /\ loading = FALSE
  /\ error = NULL
  /\ selected = <<>>
  /\ cache = Cached(Seed)
  /\ ls = Snapshot(Seed)
  /\ toasts = <<>>
  /\ idRef = 1
  /\ fetching = 0
  /\ insertId = Len(Seed) + 1
  /\ pending = <<>>
  /\ last = Last("fetchOk", NoMutation, 0)
  /\ consumed = {}
  /\ nOps = 0
  /\ InitView
  /\ InitCsv
  /\ table = SeqToSet(Seed)
  /\ served = {}

\* Loading: the list request, its outcomes, refreshes, and what may run
\* between two of them.
NextLoad ==
  \/ FetchUsers
  \/ \E data \in ServerLists : FetchOk(data)
  \/ \E data \in ServerLists : FetchOkSaveFails(data)
  \/ \E msg \in FetchErrors : FetchFail(msg)
  \/ \E payload \in ServerLists : PushUpdate(payload)
  \/ \E id \in IdSet : RemoveUser(id)
  \/ \E i \in DOMAIN pending : RemoveOk(i)
  \/ Tick
  \/ \E k \in DOMAIN toasts : TimerFire(k)

SpecLoad == Init /\ [][NextLoad]_vars

\* The list request in flight is answered or fails: the promise of fetch
\* settles.
FetchSettles ==
  \/ \E data \in ServerLists : FetchOk(data)
  \/ \E data \in ServerLists : FetchOkSaveFails(data)
  \/ \E msg \in FetchErrors : FetchFail(msg)
\* Loading with every list request settling in the end.
SpecLoadFair == SpecLoad /\ WF_vars(FetchSettles)

\* Mutations of a loaded page: optimistic writes, responses in any order,
\* rollbacks, undo, push messages.
NextSync ==
  \/ \E payload \in ServerLists : PushUpdate(payload)
  \/ PushDropped
  \/ \E id \in IdSet, values \in FormValues : UpdateUser(id, values)
  \/ \E i \in DOMAIN pending :
        \E data \in { ServerPut(pending[i].id, pending[i].values), NoUser } :
          UpdateOk(i, data)
  \/ \E i \in DOMAIN pending, msg \in UpdateErrors : UpdateFail(i, msg)
  \/ \E id \in IdSet : RemoveUser(id)
  \/ \E i \in DOMAIN pending : RemoveOk(i)
  \/ \E i \in DOMAIN pending, msg \in RemoveErrors : RemoveFail(i, msg)
  \/ \E k \in DOMAIN toasts : UndoClick(k)
  \/ \E id \in IdSet : ToggleSelect(id)
  \/ RemoveSelected
  \/ \E i \in DOMAIN pending, id \in IdSet, ok \in BOOLEAN : BulkResolve(i, id, ok)
  \/ \E i \in DOMAIN pending, id \in IdSet : BulkReject(i, id)
  \/ \E values \in FormValues : CreateUser(values)
  \/ \E i \in DOMAIN pending : CreateOk(i)
  \/ \E i \in DOMAIN pending : CreateFail(i)

SpecSync == InitLoaded /\ [][NextSync]_vars

\* Edits of a loaded page and what may run before and after them.
NextEdit ==
  \/ \E payload \in ServerLists : PushUpdate(payload)
  \/ \E id \in IdSet, values \in FormValues : UpdateUser(id, values)
  \/ \E i \in DOMAIN pending :
        \E data \in { ServerPut(pending[i].id, pending[i].values), NoUser } :
          UpdateOk(i, data)
  \/ \E i \in DOMAIN pending, msg \in UpdateErrors : UpdateFail(i, msg)
  \/ \E id \in IdSet : RemoveUser(id)
  \/ \E i \in DOMAIN pending : RemoveOk(i)
  \/ \E k \in DOMAIN toasts : UndoClick(k)

SpecEdit == InitLoaded /\ [][NextEdit]_vars

\* Edits in flight together, each PUT answered by the service of server.js
\* (200 with the record of the request) or failing.
NextConflict ==
  \/ \E id \in IdSet, values \in FormValues : UpdateUser(id, values)
  \/ \E i \in DOMAIN pending :
        UpdateOk(i, ServerPut(pending[i].id, pending[i].values))
  \/ \E i \in DOMAIN pending, msg \in UpdateErrors : UpdateFail(i, msg)
  \/ \E payload \in ServerLists : PushUpdate(payload)

SpecConflict == InitLoaded /\ [][NextConflict]_vars

\* The page and the service: creates, edits, deletes and bulk deletes, the
\* service processing the requests in any order and every request answered
\* 2xx, in any order, once the service has processed it.
NextConverge ==
  \/ \E id \in IdSet, values \in FormValues : UpdateUser(id, values)
  \/ \E id \in IdSet : RemoveUser(id)
  \/ \E id \in IdSet : ToggleSelect(id)
  \/ RemoveSelected
  \/ \E values \in FormValues : CreateUser(values)
  \/ \E i \in DOMAIN pending : ServePost(i)
  \/ \E i \in DOMAIN pending : ServePut(i)
  \/ \E i \in DOMAIN pending, id \in IdSet : ServeDelete(i, id)
  \/ \E i \in DOMAIN pending :
        \E a \in served : a.n = pending[i].n /\ UpdateOk(i, a.row)
  \/ \E i \in DOMAIN pending :
        IsServed(pending[i], pending[i].id) /\ RemoveOk(i)
  \/ \E i \in DOMAIN pending, id \in IdSet :
        IsServed(pending[i], id) /\ BulkResolve(i, id, TRUE)
  \/ \E i \in DOMAIN pending :
        \E a \in served :
          a.n = pending[i].n /\ CreateApply(i, a.row) /\ UNCHANGED << insertId, srvVars >>

SpecConverge == InitLoaded /\ [][NextConverge]_vars

\* The selection of rows against deletes, rollbacks, refreshes and pushes.
NextSelect ==
  \/ \E id \in IdSet : ToggleSelect(id)
  \/ SelectPage
  \/ \E id \in IdSet : RemoveUser(id)
  \/ \E i \in DOMAIN pending : RemoveOk(i)
  \/ \E i \in DOMAIN pending, msg \in RemoveErrors : RemoveFail(i, msg)
  \/ FetchUsers
  \/ \E data \in ServerLists : FetchOk(data)
  \/ \E payload \in ServerLists : PushUpdate(payload)
  \/ RemoveSelected
  \/ \E i \in DOMAIN pending, id \in IdSet, ok \in BOOLEAN : BulkResolve(i, id, ok)

SpecSelect == InitLoaded /\ [][NextSelect]_vars

\* Delete and undo of one record against the clock of the toasts.
UndoIds == {1}
NextUndo ==
  \/ \E id \in UndoIds : RemoveUser(id)
  \/ \E i \in DOMAIN pending : RemoveOk(i)
  \/ \E i \in DOMAIN pending, msg \in RemoveErrors : RemoveFail(i, msg)
  \/ \E k \in DOMAIN toasts : UndoClick(k)
  \/ Tick
  \/ \E k \in DOMAIN toasts : TimerFire(k)

SpecUndo == InitLoaded /\ [][NextUndo]_vars

\* The page once the list request has been answered with data.
LoadedWith(data) ==
  /\ users = data
  /\ loading = FALSE
  /\ error = NULL
  /\ selected = <<>>
  /\ cache = Cached(data)
  /\ ls = Snapshot(data)
  /\ toasts = <<>>
  /\ idRef = 1
  /\ fetching = 0
  /\ insertId = Len(data) + 1
  /\ pending = <<>>
  /\ last = Last("fetchOk", NoMutation, 0)
  /\ consumed = {}
  /\ nOps = 0
  /\ InitView
  /\ InitCsv
  /\ table = SeqToSet(data)
  /\ served = {}

\* The table: filter, sort and pages of a list longer than a page.
NextView ==
  \/ \E q \in Queries : SetQuery(q)
  \/ \E col \in SortKeys : SortClick(col)
  \/ PageFirst
  \/ PagePrev
  \/ PageNext
  \/ PageLast
  \/ \E n \in PageSizes : SetPageSize(n)
  \/ \E payload \in ViewLists : PushUpdate(payload)
  \/ \E id \in ViewIds : RemoveUser(id)
  \/ \E i \in DOMAIN pending : RemoveOk(i)

SpecView == LoadedWith(ViewSeed) /\ [][NextView]_vars

\* The CSV helpers on record lists and on texts.
NextCsv ==
  \/ ExportCSV
  \/ \E rows \in CsvLists : CsvRoundTrip(rows)
  \/ \E lines \in CsvLineLists : CsvParse(lines)

SpecCsv == LoadedWith(TableSeed) /\ [][NextCsv]_vars

\* The import of CSV files next to the create form.
NextImport ==
  \/ \E text \in ImportTexts : ImportCSV(text)
  \/ \E created \in BOOLEAN : ImportPostAnswered(created)
  \/ ImportPostRejected
  \/ ImportDone
  \/ \E data \in TableLists : FetchOk(data)
  \/ \E msg \in FetchErrors : FetchFail(msg)
  \/ \E values \in FormInputs : SubmitCreate(values)
  \/ \E i \in DOMAIN pending : CreateOk(i)
  \/ \E i \in DOMAIN pending : CreateFail(i)

SpecImport == LoadedWith(TableSeed) /\ [][NextImport]_vars

\* Creates of a loaded page and what may run while they are in flight.
NextCreate ==
  \/ \E values \in FormValues : CreateUser(values)
  \/ \E i \in DOMAIN pending : CreateOk(i)
  \/ \E i \in DOMAIN pending : CreateFail(i)
  \/ \E payload \in ServerLists : PushUpdate(payload)
  \/ \E id \in IdSet : RemoveUser(id)
  \/ \E i \in DOMAIN pending : RemoveOk(i)

SpecCreate == InitLoaded /\ [][NextCreate]_vars

\* The WebSocket messages on a loaded page.
NextPush ==
  \/ \E payload \in ServerLists \cup MalformedPayloads : PushUpdate(payload)
  \/ PushDropped
  \/ \E id \in IdSet : RemoveUser(id)
  \/ \E i \in DOMAIN pending : RemoveOk(i)
  \/ \E k \in DOMAIN toasts : UndoClick(k)

SpecPush == InitLoaded /\ [][NextPush]_vars

\* ==================================================================== claims

\* The ids a mutation writes.
IdsOf(m) == IF m.kind = "bulk" THEN SeqToSet(m.ids) ELSE {m.id}
\* The optimistic effect of mutation m is visible in the list v.
EffectPresent(m, v) ==
  CASE m.kind = "update" ->
         \A i \in DOMAIN v :
           v[i].id = m.id => v[i].name = m.values.name /\ v[i].email = m.values.email
    [] m.kind = "remove" -> ~Has(v, m.id)
    [] m.kind = "bulk" -> \A id \in SeqToSet(m.ids) : ~Has(v, id)
    [] OTHER -> TRUE
IsRollback(op) == op \in {"updateFail", "removeFail", "bulkFail"}
\* The toast pushed last.
NewestToast == toasts[Len(toasts)]

\* C1: when a mutation fails while another optimistic mutation on other ids is
\* in flight, the rollback keeps the other mutation's effect: what was visible
\* of it before the rollback is visible after it.
C1_RollbackKeepsOtherMutations ==
  [][ IsRollback(last'.op) =>
        \A i \in DOMAIN pending :
          ( /\ pending[i].n # last'.m.n
            /\ pending[i].kind \in {"update", "remove", "bulk"}
            /\ IdsOf(pending[i]) \cap IdsOf(last'.m) = {}
            /\ EffectPresent(pending[i], users) )
          => EffectPresent(pending[i], users') ]_vars

\* A bulk delete has finished with at least one DELETE failed: rejected
\* (bulkFail) or answered with a non-2xx status (bad).
BulkFinishedWithFailure ==
  /\ last.op \in {"bulkDone", "bulkFail"}
  /\ (last.op = "bulkFail" \/ last.m.bad # {})

\* C2: once a bulk delete has finished with at least one DELETE failed, every
\* record of ids that was in the list before the call is in it again.
C2_BulkDeleteAllOrNothing ==
  BulkFinishedWithFailure =>
    \A id \in SeqToSet(last.m.ids) :
      Has(last.m.prev, id) => Find(last.m.prev, id) \in SeqToSet(users)

\* C3: a bulk delete with at least one DELETE failed surfaces the failure and
\* emits no success notification.
C3_BulkFailureSurfaced ==
  BulkFinishedWithFailure =>
    /\ toasts # <<>>
    /\ NewestToast.type = "error"
    /\ NewestToast.msg = "Bulk delete failed"

\* C4: update(id, fields) of a present record shows the new field values at
\* once; when the PUT then fails with nothing else run in between, the list is
\* the one before the update, so the record under id has its old value, and an
\* error toast is pushed.
C4_UpdateOptimisticThenRollback ==
  /\ last.op = "update" =>
       /\ Has(users, last.m.id)
       /\ \A i \in DOMAIN users :
            users[i].id = last.m.id =>
              /\ users[i].name = last.m.values.name
              /\ users[i].email = last.m.values.email
  /\ (last.op = "updateFail" /\ last.m.solo) =>
       /\ users = last.m.prev
       /\ Find(users, last.m.id) = Find(last.m.prev, last.m.id)
       /\ toasts # <<>>
       /\ NewestToast.type = "error"
       /\ NewestToast.msg = last.msg
\* An update of a present record has failed with nothing run in between, and
\* the record shows its old name, not the submitted one.
C4_Witness ==
  /\ last.op = "updateFail" /\ last.m.solo
  /\ Has(last.m.prev, last.m.id)
  /\ Find(users, last.m.id).name # last.m.values.name
  /\ Find(users, last.m.id).name = Al

\* C5: no two records of the list have the same id.
C5_UniqueIds ==
  \A i, j \in DOMAIN users : users[i].id = users[j].id => i = j

\* C6: when the DELETE of removeUser fails, the record is back in the list
\* once and the Undo toast of that delete is shown no longer.
C6_RollbackInvalidatesUndo ==
  last.op = "removeFail" =>
    /\ Count(users, last.m.id) = 1
    /\ \A k \in DOMAIN toasts : toasts[k].id # last.tok

\* C7: an Undo of a toast whose Undo has run before leaves the list unchanged.
C7_UndoOnce ==
  [][ (last'.op = "undo" /\ last'.again) => users' = users ]_vars

\* C8: an Undo runs on a toast no older than the window and puts the removed
\* record at the head of the list; the timer removes the toast from the items,
\* so there is no Undo to click once the window has elapsed; no shown toast is
\* older than the window.
C8_UndoWindow ==
  /\ last.op = "undo" =>
       \E k \in DOMAIN toasts :
         /\ toasts[k].id = last.tok
         /\ toasts[k].age <= ToastWindow
         /\ toasts[k].removed # NoUser =>
              /\ users # <<>>
              /\ users[1] = toasts[k].removed
  /\ last.op = "expire" => \A k \in DOMAIN toasts : toasts[k].id # last.tok
  /\ \A k \in DOMAIN toasts : toasts[k].age <= ToastWindow
\* After one delete and nothing else pushed, the record is in the list again
\* (by an Undo inside the window) and the timer of the toast has just fired.
C8_Witness ==
  /\ last.op = "expire"
  /\ nOps = 1 /\ idRef = 2
  /\ toasts = <<>>
  /\ Count(users, 1) = 1

\* C9: no two shown toasts whose Undo has not run hold a record of the same id.
C9_OneLiveTokenPerRecord ==
  \A j, k \in DOMAIN toasts :
    ( /\ toasts[j].action /\ toasts[k].action
      /\ toasts[j].id \notin consumed /\ toasts[k].id \notin consumed
      /\ toasts[j].removed # NoUser
      /\ toasts[j].removed.id = toasts[k].removed.id )
    => j = k

\* C10: when the list request fails, loading ends; with a saved snapshot the
\* error stays null, the list is the snapshot's and the "Loaded offline cache"
\* toast is pushed; with no snapshot the error is the failure's message.
C10_OfflineFallback ==
  last.op = "fetchFail" =>
    /\ ~loading
    /\ ls.kind = "json" =>
         /\ error = NULL
         /\ users = ls.data
         /\ toasts # <<>>
         /\ NewestToast.type = "info"
         /\ NewestToast.msg = "Loaded offline cache"
    /\ ls.kind = "absent" =>
         /\ error = last.msg
         /\ error \in FetchErrors
\* The first list request has failed and the one record of the snapshot is
\* the list.
C10_Witness ==
  /\ last.op = "fetchFail"
  /\ ls.kind = "json"
  /\ cache = NoCache
  /\ Len(users) = 1 /\ users = ls.data
  /\ error = NULL /\ ~loading

\* C11: when the list request succeeds and saving the snapshot fails, loading
\* ends with no error and the list is the fetched one (the one put in the
\* cache), not an older snapshot.
C11_SaveFailureNotFatal ==
  last.op = "fetchOkSaveFails" =>
    /\ ~loading
    /\ error = NULL
    /\ users = cache.data

\* C12: a refresh called once a list has been fetched (the cache holds it)
\* and failing with nothing run in between leaves the list as it was when
\* the refresh was called.
C12_FailedRefreshKeepsList ==
  [][ (last.op = "fetch" /\ cache.has /\ last'.op = "fetchFail")
        => users' = last.m.prev ]_vars

\* C13: when the list request fails and the stored snapshot cannot be parsed,
\* loading ends with the error set to the failure (the snapshot taken as
\* absent) or with data adopted and the offline toast pushed.
C13_UnparsableSnapshotHandled ==
  (last.op = "fetchFail" /\ ls.kind = "corrupt") =>
    \/ error = last.msg
    \/ /\ toasts # <<>>
       /\ NewestToast.msg = "Loaded offline cache"

\* C17: the number of pages is the least n >= 1 with n * pageSize >= the
\* number of filtered rows; the page shown lies in 1..pages and is the
\* requested page unless that is beyond the last; the rows shown are at most
\* pageSize and are the filtered-sorted list from (pageSafe - 1) * pageSize on.
C17_ProjectionBounds ==
  LET list == Filtered
      pages == Pages
      safe == PageSafe
      rows == PageRows
      first == (safe - 1) * pageSize
  IN /\ pages >= 1
     /\ pages * pageSize >= Len(list)
     /\ pages > 1 => (pages - 1) * pageSize < Len(list)
     /\ 1 <= safe /\ safe <= pages
     /\ page <= pages => safe = page
     /\ page > pages => safe = pages
     /\ Len(rows) <= pageSize
     /\ Len(rows) = Min(pageSize, Len(list) - first)
     /\ \A i \in DOMAIN rows : rows[i] = list[first + i]
\* Page 3 was requested, a push has left six records, and the second and last
\* page shows the one row after the first five.
C17_Witness ==
  /\ page = 3 /\ pageSize = 5
  /\ Len(users) = 6 /\ query = <<>>
  /\ Pages = 2 /\ PageSafe = 2
  /\ Len(PageRows) = 1
  /\ PageRows[1] = Filtered[6]

\* s contains q as a substring, letters compared without their case.
ContainsIgnoringCase(s, q) ==
  \E k \in 0..(Len(s) - Len(q)) :
    \A j \in 1..Len(q) : ToLower(s[k + j]) = ToLower(q[j])
\* The filter keeps exactly the records whose name or email contains q.
KeepsExactly(q) ==
  LET kept == { Filtered[k] : k \in DOMAIN Filtered }
      hits == { i \in DOMAIN users :
                  \/ ContainsIgnoringCase(users[i].name, q)
                  \/ ContainsIgnoringCase(users[i].email, q) }
  IN /\ \A i \in DOMAIN users : users[i] \in kept <=> i \in hits
     /\ Cardinality(kept) = Cardinality(hits)

\* C20 as stated: the filter keeps exactly the records whose name or email
\* contains the query, compared without case, for every query; the empty
\* query keeps all.
C20_FilterExact ==
  /\ KeepsExactly(query)
  /\ query = <<>> => Len(Filtered) = Len(users)

\* C20 amended: the filter keeps exactly the records whose name or email
\* contains the query with its leading and trailing white space removed,
\* compared without case; a query that is empty once trimmed keeps all.
C20_FilterTrimmed ==
  /\ KeepsExactly(Trim(query))
  /\ Trim(query) = <<>> => Len(Filtered) = Len(users)
\* The query "AL" on the eleven records keeps the three whose name starts
\* with "Al" or "al".
C20_Witness ==
  /\ query = << "A", "L" >>
  /\ users = ViewSeed
  /\ { Filtered[k].id : k \in DOMAIN Filtered } = {1, 5, 6}

\* C14: every create request in flight, of the create form or of the CSV
\* import, carries a name of two characters or more and an email of the email
\* grammar.
C14_OnlyValidCreatesSent ==
  /\ \A i \in DOMAIN pending :
       pending[i].kind = "create" => UserSchemaOk(pending[i].values)
  /\ importing.phase = "posting" => UserSchemaOk(importing.sent)

\* C18: parseCSV(toCSV(R)) = R: the same records, with the same id, name and
\* email, in the same order.
C18_CsvRoundTrip ==
  csv.op = "roundtrip" => csv.out = csv.rows

\* C19: parseCSV returns one record per data line that is not blank, none for
\* a blank line; with no id, name or email column every record has id 0,
\* name "" or email "".
C19_DecodeSkipsBlankLines ==
  csv.op = "parse" =>
    LET data == Tail(csv.lines)
        header == Split(csv.lines[1], ",")
    IN /\ Len(csv.out) = Cardinality({ i \in DOMAIN data : Trim(data[i]) # <<>> })
       /\ IndexOf(header, << "i", "d" >>) < 0 =>
            \A k \in DOMAIN csv.out : csv.out[k].id = 0
       /\ IndexOf(header, << "n", "a", "m", "e" >>) < 0 =>
            \A k \in DOMAIN csv.out : csv.out[k].name = <<>>
       /\ IndexOf(header, << "e", "m", "a", "i", "l" >>) < 0 =>
            \A k \in DOMAIN csv.out : csv.out[k].email = <<>>

\* C15: createUser leaves the list alone when it is called and when its POST
\* fails; when the POST is answered, the list is the one before with exactly
\* the record of the response, under the id the service assigned, put in.
C15_CreateNotOptimistic ==
  [][ /\ last'.op \in {"create", "createFail"} => users' = users
      /\ last'.op = "createOk" =>
           /\ Len(users') = Len(users) + 1
           /\ \E k \in DOMAIN users' :
                /\ users'[k].id = insertId
                /\ users'[k].name = last'.m.values.name
                /\ users'[k].email = last'.m.values.email
                /\ RemoveAt(users', k) = users ]_vars
\* A create has been answered: the list is the two records loaded and, with
\* the first id the service had free, the record of the form.
C15_Witness ==
  /\ last.op = "createOk"
  /\ Len(users) = Len(Seed) + 1
  /\ \A i \in DOMAIN Seed : \E k \in DOMAIN users : users[k] = Seed[i]
  /\ \E k \in DOMAIN users :
       /\ users[k].id = Len(Seed) + 1
       /\ users[k].name = last.m.values.name

\* An array of Records.
IsRecord(u) == DOMAIN u = {"id", "name", "email"}
IsRecordArray(v) == \A i \in DOMAIN v : IsRecord(v[i])

\* C16: a WebSocket message changes the list only to an array of Records (a
\* malformed message leaves it as it is), and no message sets the error or
\* pushes a toast.
C16_MalformedPushDropped ==
  [][ last'.op \in {"push", "pushDropped"} =>
        /\ users' # users => IsRecordArray(users')
        /\ error' = error
        /\ toasts' = toasts ]_vars

\* The ids of a list, in its order.
IdSeq(v) == [i \in DOMAIN v |-> v[i].id]
Reverse(s) == [i \in DOMAIN s |-> s[Len(s) + 1 - i]]
\* The place of the record with this id in a list of unique ids.
PosOf(v, id) == CHOOSE k \in DOMAIN v : v[k].id = id
\* Two records compare equal on a key: the comparator answers zero.
Ties(a, b, by) == Cmp(a, b, by, "asc") = 0
\* The records that compare equal are in out in the order they have in list.
KeepsTieOrder(list, out, by) ==
  \A i, j \in DOMAIN list :
    (i < j /\ Ties(list[i], list[j], by)) =>
      PosOf(out, list[i].id) < PosOf(out, list[j].id)
OtherDir(dir) == IF dir = "asc" THEN "desc" ELSE "asc"

\* C21: on the filtered records and the sort key of the table, when no two
\* records compare equal the ids sorted in one direction are the reverse of
\* the ids sorted in the other; records that compare equal keep their input
\* order in both directions.
C21_SortReversible ==
  LET list == FilterUsers(users, query)
      shown == Filtered
      other == SortUsers(list, sortBy, OtherDir(sortDir))
      noTies == \A i, j \in DOMAIN list : i # j => ~Ties(list[i], list[j], sortBy)
  IN /\ noTies => IdSeq(shown) = Reverse(IdSeq(other))
     /\ KeepsTieOrder(list, shown, sortBy)
     /\ KeepsTieOrder(list, other, sortBy)
\* The six records of a push sorted by email, descending: no two emails
\* compare equal and the order is the reverse of the ascending one.
C21_Witness ==
  /\ sortBy = "email" /\ sortDir = "desc"
  /\ users = SubSeq(ViewSeed, 1, 6) /\ query = <<>>
  /\ IdSeq(Filtered) = << 6, 2, 4, 3, 5, 1 >>
  /\ IdSeq(SortUsers(users, "email", "asc")) = << 1, 5, 3, 4, 2, 6 >>

\* C22: a bulk delete rolls back or reports success only once every DELETE of
\* the batch has been answered: none is in flight when it finishes.
C22_BulkJoinsAllDeletes ==
  last.op \in {"bulkDone", "bulkFail"} => last.m.waiting = {}

\* C23: whenever the page is loading it is later not loading, and every step
\* that settles a list request leaves it not loading, whatever the outcome of
\* the request, of the save of the snapshot and of its parse.
C23_LoadingEnds ==
  /\ loading ~> ~loading
  /\ [][fetching' < fetching => ~loading']_vars
\* The first request has failed with a snapshot stored that cannot be parsed,
\* and the page is not loading.
C23_Witness ==
  /\ last.op = "fetchFail"
  /\ ls.kind = "corrupt"
  /\ fetching = 0
  /\ ~loading

\* C24: when the response of an update is applied, whatever else is in flight
\* and in whatever order the responses arrive, the record under the update's
\* id is the one of that response and every other record is as it was; so
\* after two updates of one id the record is that of the response applied last.
C24_LastAppliedWins ==
  [][ last'.op = "updateOk" =>
        /\ Len(users') = Len(users)
        /\ \A k \in DOMAIN users :
             IF users[k].id = last'.m.id
             THEN users'[k] = User(last'.m.id, last'.m.values.name, last'.m.values.email)
             ELSE users'[k] = users[k] ]_vars
\* Two updates of record 1 were in flight together and both have been
\* answered, the first one submitted last: record 1 holds its values and
\* record 2 is as loaded.
C24_Witness ==
  /\ last.op = "updateOk" /\ last.m.n = 1 /\ last.m.id = 1
  /\ ~last.m.solo
  /\ pending = <<>> /\ nOps = 2
  /\ Len(toasts) = 2
  /\ \A k \in DOMAIN toasts : toasts[k].msg = "Changes saved"
  /\ users = << User(1, last.m.values.name, last.m.values.email), Seed[2] >>

\* C25: with no request failed, no undo and no push, once every response has
\* been applied the list holds exactly the rows of the service's table.
C25_ConvergesWithServer ==
  pending = <<>> =>
    /\ SeqToSet(users) = table
    /\ Len(users) = Cardinality(table)

\* C26: the selected ids are ids of records of the list, in every state.
C26_SelectionWithinSet ==
  SeqToSet(selected) \subseteq Ids(users)
====
